---- MODULE Spec2Model ----
(***************************************************************************)
(* Model of run/SU2_preCICE_ablation.py: the coupling control loop that    *)
(* drives the SU2 flow solver (pysu2) under the preCICE middleware.        *)
(*                                                                         *)
(* main() is one sequential procedure; pc is its position.  The solver and *)
(* the middleware are external collaborators: every answer they give       *)
(* (a required action, a step-size constraint, a stop signal, a failure)   *)
(* is drawn nondeterministically when the script asks for it.              *)
(* Field values are symbolic integers that encode where a value came from, *)
(* times are integer multiples of one time unit.                           *)
(*                                                                         *)
(* Spec and SpecMesh follow one rank through all of main(); SpecPar        *)
(* follows the ranks of a parallel run through the loop and its barriers.  *)
(***************************************************************************)
EXTENDS Integers, Sequences, FiniteSets, TLC

\* ------------------------------------------------------------------ bounds
MaxVertex  == 2   \* boundary vertices on this rank (mesh specification)
MaxAdvance == 2   \* advances after which the middleware session is over
MaxDt      == 2   \* largest time-step size / step-size constraint
MaxTimeIter == 1  \* largest restart iteration of the solver
NRanks     == 2   \* ranks of a parallel run

\* ------------------------------------------------ names fixed by the script
None == -1                      \* Python None for a marker ID
MovingMarker  == "interface"
MovingMarker2 == "interface2"
CHTMarker     == "interface"
MarkerNames   == {"interface", "interface2"}

read_data_id      == 1          \* "Displacement" on mesh_id
read_data_id2     == 2          \* "Displacement" on mesh_id2
write_data_id     == 3          \* "Pressure" on mesh_id
read_data_id_CHT  == 4          \* "Temperature" on mesh_id
write_data_id_CHT == 5          \* "Heat-Flux" on mesh_id

VARIABLES
  pc,            \* position in main()
  error,         \* "none", or the reason the run ended early
  with_MPI,      \* options.with_MPI
  nDim,          \* options.nDim
  size,          \* comm.Get_size(), 0 before it is queried
  sessionLen,    \* number of advances after which the session is over
  \* -- solver side (SU2Driver), fixed by the solver's configuration
  allMarkerIDs,      \* marker name -> marker ID, markers of this rank
  MovingMarkerList,  \* tags with the deform-mesh role
  CHTMarkerList,     \* tags with the CHT role
  nVertices,         \* marker ID -> number of vertices (physical + halo)
  haloNodes,         \* marker ID -> set of halo vertex indices
  su2_dt,            \* Unsteady_TimeStep held by the solver
  su2_TimeIter,      \* Time_Iter of the solver at start (restart iteration)
  su2_nTimeIter,     \* configured maximum number of iterations
  su2_state,         \* solution state: number of solver steps it contains
  su2_old,           \* state kept by SaveOldState, None before
  \* -- locals of main()
  MovingMarkerID, nVertex_MovingMarker_PHYS, iVertices_MovingMarker_PHYS,
  MovingMarkerID2, nVertex_MovingMarker_PHYS2, iVertices_MovingMarker_PHYS2,
  CHTMarkerID, nVertex_CHTMarker_PHYS, iVertices_CHTMarker_PHYS,
  coords, coords2, vertex_ids, vertex_ids2,
  pressure, write_data,
  deltaT, TimeIter, nTimeIter, time, precice_deltaT,
  precice_saved_time, precice_saved_iter, stopCalc,
  \* -- observation of the calls made to the collaborators
  calls,         \* calls of the current loop iteration (or of the set-up)
  answers,       \* what the middleware answered to the queries of that span
  applied,       \* per-vertex boundary values set in the current iteration
  written,       \* bulk writes of the current iteration (or of the set-up)
  ckpt,          \* what the last SaveOldState saw; fresh until a window commits
  nIteration,    \* loop iterations started
  nAdvance,      \* advance calls made
  nCommitted,    \* windows committed (advance without a rollback request)
  nRollback,     \* rollbacks honoured
  nPostprocessing, nFinalize,
  \* -- the ranks of a parallel run, each executing main()
  rank_pc,       \* rank -> position in lines 273-384
  rank_iter,     \* rank -> loop iterations started
  rank_barriers, \* rank -> calls of comm.Barrier() entered
  rank_nPhys,    \* rank -> physical vertices of 'interface' it owns
  signals        \* per iteration, what middleware and solver tell every rank

optVars   == <<with_MPI, nDim, size, sessionLen>>
meshVars  == <<allMarkerIDs, MovingMarkerList, CHTMarkerList, nVertices, haloNodes>>
cfgVars   == <<su2_TimeIter, su2_nTimeIter>>
regVars   == <<MovingMarkerID, nVertex_MovingMarker_PHYS, iVertices_MovingMarker_PHYS,
               MovingMarkerID2, nVertex_MovingMarker_PHYS2, iVertices_MovingMarker_PHYS2,
               CHTMarkerID, nVertex_CHTMarker_PHYS, iVertices_CHTMarker_PHYS>>
bindVars  == <<coords, coords2, vertex_ids, vertex_ids2>>
bufVars   == <<pressure, write_data>>
su2Vars   == <<su2_dt, su2_state, su2_old>>
timeVars  == <<deltaT, TimeIter, nTimeIter, time, precice_deltaT,
               precice_saved_time, precice_saved_iter, stopCalc>>
obsVars   == <<calls, answers, applied, written>>
cntVars   == <<ckpt, nIteration, nAdvance, nCommitted, nRollback,
               nPostprocessing, nFinalize>>
seqVars == <<pc, error, optVars, meshVars, cfgVars, regVars, bindVars, bufVars,
             su2Vars, timeVars, obsVars, cntVars>>
parVars == <<rank_pc, rank_iter, rank_barriers, rank_nPhys, signals>>
vars == <<seqVars, parVars>>

\* ----------------------------------------------------------------- helpers
Call(op, arg) == [op |-> op, arg |-> arg]
Bit(b) == IF b THEN 1 ELSE 0
\* the answer of the middleware to one of its queries
Answer(query, b) == [op |-> query, arg |-> Bit(b)]

Ops(s) == {s[i].op : i \in 1..Len(s)}

IndexOf(s, op) == CHOOSE i \in 1..Len(s) : s[i].op = op

Zeros(n) == [i \in 1..n |-> 0]

Min(a, b) == IF b < a THEN b ELSE a

\* line 324: deltaT = min(precice_deltaT, deltaT)
EffectiveStep_max(s, d) == IF s < d THEN d ELSE s
EffectiveStep_constraint(s, d) == s
EffectiveStep(s, d) == Min(s, d)

\* ------------------------------------------------- solver-side accessors
\* Symbolic values: each encodes the marker, the vertex and the quantity.
MarkerIndex(name) == IF name = "interface" THEN 0 ELSE 1

GetNumberVertices(id) == nVertices[id]
GetNumberHaloVertices(id) == Cardinality(haloNodes[id])
IsAHaloNode(id, iVertex) == iVertex \in haloNodes[id]
GetInitialMeshCoord(id, iVertex) == [d \in 1..3 |-> 100 * (id + 1) + 10 * iVertex + d]
GetVertexPressure(id, iVertex) == 1000 + 100 * (id + 1) + iVertex
GetVertexTemperature(id, iVertex) == 2000 + 100 * (id + 1) + iVertex
GetVertexNormalHeatFlux(id, iVertex) == 3000 + 100 * (id + 1) + iVertex

\* lines 232-234, 258, 347: the accessor bound to a written field
GetFxn(fxn, id, iVertex) ==
  CASE fxn = "GetVertexPressure" -> GetVertexPressure(id, iVertex)
    [] fxn = "GetVertexTemperature" -> GetVertexTemperature(id, iVertex)
    [] fxn = "GetVertexNormalHeatFlux" -> GetVertexNormalHeatFlux(id, iVertex)

\* ---------------------------------------------------- middleware accessors
\* set_mesh_vertices: one vertex ID per coordinate row, in row order.
set_mesh_vertices(rows) == [i \in 1..Len(rows) |-> i - 1]
\* read_block_*_data: one value (row) per vertex ID, in ID order; the value
\* encodes the data ID, the vertex ID and the component.
read_block_vector_data(data_id, ids) ==
  [i \in 1..Len(ids) |-> [d \in 1..nDim |-> 100 * data_id + 10 * ids[i] + d]]
read_block_scalar_data(data_id, ids) ==
  [i \in 1..Len(ids) |-> 100 * data_id + 10 * ids[i]]

\* ------------------------------------------------------- vertex registry
\* lines 109-110, 140-141, 173-174: the marker ID, or None
MarkerIDFor(name, roleList) ==
  IF name \in roleList /\ name \in DOMAIN allMarkerIDs
  THEN allMarkerIDs[name] ELSE None

\* lines 125-127, 156-158, 190-192: the loop over range(nVertex)
RECURSIVE CollectPhys(_, _, _)
CollectPhys(id, n, iVertex) ==
  IF iVertex >= n THEN <<>>
  ELSE (IF ~IsAHaloNode(id, iVertex) THEN <<iVertex>> ELSE <<>>)
       \o CollectPhys(id, n, iVertex + 1)

PhysVertices_withHalo(id) ==
  IF id # None THEN [i \in 1..GetNumberVertices(id) |-> i - 1] ELSE <<>>
PhysVertices(id) ==
  IF id # None THEN CollectPhys(id, GetNumberVertices(id), 0) ELSE <<>>

\* lines 113-122: nVertex - nVertex_HALO, 0 for a marker that is None
PhysCount(id) ==
  IF id # None THEN GetNumberVertices(id) - GetNumberHaloVertices(id) ELSE 0

\* lines 204-208, 211-215: coordinate rows of the physical vertices
CoordRows(n, id, list) ==
  [i \in 1..n |-> IF i <= Len(list)
                  THEN [d \in 1..nDim |-> GetInitialMeshCoord(id, list[i])[d]]
                  ELSE [d \in 1..nDim |-> 0]]

\* ------------------------------------------------------------ data channel
\* lines 301 and 308: DisplZ = 0 if nDim == 2 else displacements[i][2]
DisplZ_copyY(row) == IF nDim = 2 THEN row[2] ELSE row[2]
DisplZ(row) == IF nDim = 2 THEN 0 ELSE row[3]

\* lines 298-303, 305-310: apply displacement rows; an index past the
\* buffer raises IndexError after the rows before it were applied.
ApplyDispl(id, list, buf) ==
  [i \in 1..Min(Len(list), Len(buf)) |->
     [fn |-> "SetMeshDisplacement", marker |-> id, vertex |-> list[i],
      val |-> <<buf[i][1], buf[i][2], DisplZ(buf[i])>>]]

\* lines 313-314
ApplyTemp(id, list, buf) ==
  [i \in 1..Min(Len(list), Len(buf)) |->
     [fn |-> "SetVertexTemperature", marker |-> id, vertex |-> list[i],
      val |-> <<buf[i]>>]]

\* lines 257-258, 345-347 and 260-261, 353-355: fill buf[i] for every
\* physical vertex; entries past the list keep their value.
Gather(buf, id, list, fxn) ==
  [i \in 1..Len(buf) |-> IF i <= Len(list) THEN GetFxn(fxn, id, list[i]) ELSE buf[i]]

WriteRec(data_id, ids, values) == [data |-> data_id, ids |-> ids, values |-> values]

\* The two bulk writes of lines 263-264 and 350-358.  A value buffer whose
\* size differs from the number of vertex IDs is outside the middleware's
\* contract: the call may raise or go through.  The result is the set of
\* possible outcomes [written, raised].
BulkWrites(p, w) ==
  LET w1 == WriteRec(write_data_id, vertex_ids, p)
      w2 == WriteRec(write_data_id_CHT, vertex_ids, w)
  IN  {[written |-> <<w1, w2>>, raised |-> FALSE]}
      \cup (IF Len(p) # Len(vertex_ids)
            THEN {[written |-> <<w1>>, raised |-> TRUE]} ELSE {})
      \cup (IF Len(w) # Len(vertex_ids)
            THEN {[written |-> <<w1, w2>>, raised |-> TRUE]} ELSE {})

\* ------------------------------------------------------------------- Init
\* No SaveOldState yet.
NoCkpt == [valid |-> FALSE, time |-> 0, iter |-> 0, state |-> 0, fresh |-> FALSE]

\* The solver meshes: which markers exist on this rank, their roles, their
\* vertices and which of these are halo.
MeshConfigs(V) ==
  {m \in [present : SUBSET MarkerNames, deform : SUBSET MarkerNames,
          cht : SUBSET MarkerNames,
          nv : [{0, 1} -> 0..V], halo : [{0, 1} -> SUBSET (0..(V - 1))]] :
     /\ m.nv[0] + m.nv[1] <= V
     /\ \A id \in {0, 1} : m.halo[id] \subseteq 0..(m.nv[id] - 1)
     /\ \A n \in MarkerNames : n \notin m.present => m.nv[MarkerIndex(n)] = 0
     /\ "interface2" \notin m.cht}

\* The meshes of the control-loop specification: both markers exist on the
\* rank with one physical vertex each, the second marker moves, and the
\* first has the deform-mesh role, the CHT role or both.
SmallMeshes ==
  {m \in MeshConfigs(2) :
       /\ m.present = MarkerNames
       /\ "interface" \in m.deform \cup m.cht
       /\ "interface2" \in m.deform
       /\ \A id \in {0, 1} : m.nv[id] = 1 /\ m.halo[id] = {}}

\* The specifications of a single rank leave the view of the ranks alone.
Ranks == 1..NRanks
RanksIdle ==
  /\ rank_pc = [r \in Ranks |-> "idle"]
  /\ rank_iter = [r \in Ranks |-> 0]
  /\ rank_barriers = [r \in Ranks |-> 0]
  /\ rank_nPhys = [r \in Ranks |-> 0]
  /\ signals = <<>>

InitWith(meshes, len, dts, iters, dims) ==
  /\ pc = "construct"
  /\ error = "none"
  /\ with_MPI \in BOOLEAN
  /\ nDim \in dims
  /\ size = 0
  /\ sessionLen = len
  /\ \E m \in meshes :
       /\ allMarkerIDs = [n \in m.present |-> MarkerIndex(n)]
       /\ MovingMarkerList = m.deform
       /\ CHTMarkerList = m.cht
       /\ nVertices = m.nv
       /\ haloNodes = m.halo
  /\ su2_dt \in dts
  /\ su2_TimeIter \in iters
  /\ su2_nTimeIter = su2_TimeIter + 1
  /\ su2_state = 0
  /\ su2_old = None
  /\ MovingMarkerID = None /\ nVertex_MovingMarker_PHYS = 0
  /\ iVertices_MovingMarker_PHYS = <<>>
  /\ MovingMarkerID2 = None /\ nVertex_MovingMarker_PHYS2 = 0
  /\ iVertices_MovingMarker_PHYS2 = <<>>
  /\ CHTMarkerID = None /\ nVertex_CHTMarker_PHYS = 0
  /\ iVertices_CHTMarker_PHYS = <<>>
  /\ coords = <<>> /\ coords2 = <<>> /\ vertex_ids = <<>> /\ vertex_ids2 = <<>>
  /\ pressure = <<>> /\ write_data = <<>>
  /\ deltaT = 0 /\ TimeIter = 0 /\ nTimeIter = 0 /\ time = 0
  /\ precice_deltaT = 0
  /\ precice_saved_time = 0 /\ precice_saved_iter = 0
  /\ stopCalc = FALSE
  /\ calls = <<>> /\ answers = <<>> /\ applied = <<>> /\ written = <<>>
  /\ ckpt = NoCkpt
  /\ nIteration = 0 /\ nAdvance = 0 /\ nCommitted = 0 /\ nRollback = 0
  /\ nPostprocessing = 0 /\ nFinalize = 0

\* The default three dimensions; the solver starts afresh or restarts at
\* iteration MaxTimeIter, with the largest step (smaller steps arise from
\* the middleware's constraints).
Init ==
  /\ InitWith(SmallMeshes, MaxAdvance, {MaxDt}, {0, MaxTimeIter}, {3})
  /\ RanksIdle

\* Every mesh within the bound, in two and three dimensions, over a session
\* of one advance.
InitMesh ==
  /\ InitWith(MeshConfigs(MaxVertex), 1, {MaxDt}, {0}, {2, 3})
  /\ RanksIdle

\* ------------------------------------------------------ set-up, lines 64-277
\* lines 82, 90, 95, 201: print the diagnostic and return
Abort_noReturn(why) == pc' = "initialize" /\ error' = why
Abort(why) == pc' = "aborted" /\ error' = why
\* an exception nothing catches
Crash(why) == pc' = "crashed" /\ error' = why

\* lines 73-82: the wrapper raises TypeError when the build and the
\* --parallel flag disagree; the script prints and returns.
ConstructSolver ==
  /\ pc = "construct"
  /\ \E typeError \in BOOLEAN :
       IF typeError THEN Abort("TypeError") ELSE pc' = "precice" /\ error' = error
  /\ UNCHANGED <<optVars, meshVars, cfgVars, regVars, bindVars, bufVars,
                 su2Vars, timeVars, obsVars, cntVars>>
  /\ UNCHANGED parVars


\* lines 85-90: comm is the integer 0 without --parallel, and an integer has
\* no Get_size: AttributeError, outside the try block.  With --parallel the
\* model follows one rank of a communicator of size 1.
ConfigurePrecice ==
  /\ pc = "precice"
  /\ IF ~with_MPI
     THEN Crash("AttributeError") /\ size' = size
     ELSE /\ size' = 1
          /\ \E failed \in BOOLEAN :
               IF failed THEN Abort("precice") ELSE pc' = "dimensions" /\ error' = error
  /\ UNCHANGED <<with_MPI, nDim, sessionLen, meshVars, cfgVars, regVars, bindVars,
                 bufVars, su2Vars, timeVars, obsVars, cntVars>>
  /\ UNCHANGED parVars


\* lines 93-95
CheckDimensions ==
  /\ pc = "dimensions"
  /\ \E get_dimensions \in {2, 3} :
       IF nDim # get_dimensions THEN Abort("dimension")
       ELSE pc' = "markers" /\ error' = error
  /\ UNCHANGED <<optVars, meshVars, cfgVars, regVars, bindVars, bufVars,
                 su2Vars, timeVars, obsVars, cntVars>>
  /\ UNCHANGED parVars


\* lines 99-192: the three vertex registries
SetupMarkers ==
  /\ pc = "markers"
  /\ LET id  == MarkerIDFor(MovingMarker, MovingMarkerList)
         id2 == MarkerIDFor(MovingMarker2, MovingMarkerList)
         idC == MarkerIDFor(CHTMarker, CHTMarkerList)
     IN  /\ MovingMarkerID' = id
         /\ nVertex_MovingMarker_PHYS' = PhysCount(id)
         /\ iVertices_MovingMarker_PHYS' = PhysVertices(id)
         /\ MovingMarkerID2' = id2
         /\ nVertex_MovingMarker_PHYS2' = PhysCount(id2)
         /\ iVertices_MovingMarker_PHYS2' = PhysVertices(id2)
         /\ CHTMarkerID' = idC
         /\ nVertex_CHTMarker_PHYS' = PhysCount(idC)
         /\ iVertices_CHTMarker_PHYS' = PhysVertices(idC)
  /\ pc' = "mesh_id"
  /\ UNCHANGED <<error, optVars, meshVars, cfgVars, bindVars, bufVars,
                 su2Vars, timeVars, obsVars, cntVars>>
  /\ UNCHANGED parVars


\* lines 196-201
GetMeshIDs ==
  /\ pc = "mesh_id"
  /\ \E failed \in BOOLEAN :
       IF failed THEN Abort("mesh") ELSE pc' = "bind" /\ error' = error
  /\ UNCHANGED <<optVars, meshVars, cfgVars, regVars, bindVars, bufVars,
                 su2Vars, timeVars, obsVars, cntVars>>
  /\ UNCHANGED parVars


\* lines 204-244: coordinates, vertex IDs, buffers.  Mesh 1 is registered
\* from the CHT marker's coordinates, mesh 2 from the second moving marker's.
BindMeshes ==
  /\ pc = "bind"
  /\ LET c2 == CoordRows(nVertex_MovingMarker_PHYS2, MovingMarkerID2,
                         iVertices_MovingMarker_PHYS2)
         c  == CoordRows(nVertex_CHTMarker_PHYS, CHTMarkerID,
                         iVertices_CHTMarker_PHYS)
     IN  /\ coords2' = c2
         /\ coords' = c
         /\ vertex_ids' = set_mesh_vertices(c)
         /\ vertex_ids2' = set_mesh_vertices(c2)
  /\ pressure' = Zeros(nVertex_MovingMarker_PHYS)
  /\ write_data' = Zeros(nVertex_CHTMarker_PHYS)
  /\ calls' = calls \o <<Call("set_mesh_vertices", 1), Call("set_mesh_vertices", 2)>>
  /\ pc' = "initialize"
  /\ UNCHANGED <<error, optVars, meshVars, cfgVars, regVars, su2Vars, timeVars,
                 answers, applied, written, cntVars>>
  /\ UNCHANGED parVars


\* lines 247-253
Initialize ==
  /\ pc = "initialize"
  /\ deltaT' = su2_dt
  /\ TimeIter' = su2_TimeIter
  /\ nTimeIter' = su2_nTimeIter
  /\ time' = su2_TimeIter * su2_dt
  /\ \E s \in 1..MaxDt : precice_deltaT' = s
  /\ calls' = Append(calls, Call("initialize", precice_deltaT'))
  /\ pc' = "initial_data"
  /\ UNCHANGED <<error, optVars, meshVars, cfgVars, regVars, bindVars, bufVars,
                 su2Vars, precice_saved_time, precice_saved_iter, stopCalc,
                 answers, applied, written, cntVars>>
  /\ UNCHANGED parVars


\* lines 256-267
InitialData ==
  /\ pc = "initial_data"
  /\ \E required \in BOOLEAN :
       /\ answers' = Append(answers, Answer("write_initial_data", required))
       /\ IF ~required
          THEN /\ calls' = Append(calls, Call("initialize_data", 0))
               /\ pc' = "begin"
               /\ UNCHANGED <<error, bufVars, written>>
          ELSE LET p == Gather(pressure, MovingMarkerID, iVertices_MovingMarker_PHYS,
                               "GetVertexPressure")
                   w == Gather(write_data, CHTMarkerID, iVertices_CHTMarker_PHYS,
                               "GetVertexTemperature")
               IN  /\ pressure' = p
                   /\ write_data' = w
                   /\ \E out \in BulkWrites(p, w) :
                        /\ written' = written \o out.written
                        /\ IF out.raised
                           THEN /\ Crash("AssertionError")
                                /\ calls' = calls \o
                                     [i \in 1..Len(out.written) |-> Call("write_block_scalar_data", out.written[i].data)]
                           ELSE /\ pc' = "begin" /\ error' = error
                                /\ calls' = calls \o
                                     <<Call("write_block_scalar_data", write_data_id),
                                       Call("write_block_scalar_data", write_data_id_CHT),
                                       Call("mark_action_fulfilled", 0),
                                       Call("initialize_data", 0)>>
  /\ UNCHANGED <<optVars, meshVars, cfgVars, regVars, bindVars, su2Vars, timeVars,
                 applied, cntVars>>
  /\ UNCHANGED parVars


\* lines 273-277
BeginBarrier ==
  /\ pc = "begin"
  /\ calls' = IF with_MPI THEN Append(calls, Call("Barrier", 0)) ELSE calls
  /\ pc' = "while"
  /\ UNCHANGED <<error, optVars, meshVars, cfgVars, regVars, bindVars, bufVars,
                 su2Vars, timeVars, answers, applied, written, cntVars>>
  /\ UNCHANGED parVars


\* ------------------------------------------------ coupling loop, lines 279-380
\* line 281: while (interface.is_coupling_ongoing()); nTimeIter is not used
LoopContinues_nTimeIter(ongoing) == ongoing /\ TimeIter < nTimeIter
LoopContinues(ongoing) == ongoing

\* The middleware's session is finite: after sessionLen advances it is over.
LoopCond ==
  /\ pc = "while"
  /\ \E ongoing \in (IF nAdvance < sessionLen THEN BOOLEAN ELSE {FALSE}) :
       IF LoopContinues(ongoing)
       THEN /\ pc' = "checkpoint"
            /\ calls' = <<Call("is_coupling_ongoing", Bit(ongoing))>>
            /\ answers' = <<>>
            /\ applied' = <<>>
            /\ written' = <<>>
            /\ nIteration' = nIteration + 1
       ELSE /\ pc' = "postprocessing"
            /\ calls' = Append(calls, Call("is_coupling_ongoing", Bit(ongoing)))
            /\ UNCHANGED <<answers, applied, written, nIteration>>
  /\ UNCHANGED <<error, optVars, meshVars, cfgVars, regVars, bindVars, bufVars,
                 su2Vars, timeVars, ckpt, nAdvance, nCommitted, nRollback,
                 nPostprocessing, nFinalize>>
  /\ UNCHANGED parVars


\* lines 287-288: what save() records
SavedTime == time
SavedIter == TimeIter

\* lines 286 and 289: the save and its acknowledgement
SaveCalls_noAck == <<Call("SaveOldState", 0)>>
SaveCalls == <<Call("SaveOldState", 0), Call("mark_action_fulfilled", 1)>>

\* lines 284-289
Checkpoint ==
  /\ pc = "checkpoint"
  /\ \E required \in BOOLEAN :
       /\ answers' = Append(answers, Answer("write_iteration_checkpoint", required))
       /\ IF required
          THEN /\ su2_old' = su2_state
               /\ precice_saved_time' = SavedTime
               /\ precice_saved_iter' = SavedIter
               /\ ckpt' = [valid |-> TRUE, time |-> time, iter |-> TimeIter,
                           state |-> su2_state, fresh |-> TRUE]
               /\ calls' = calls \o SaveCalls
          ELSE UNCHANGED <<su2_old, precice_saved_time, precice_saved_iter, ckpt, calls>>
  /\ pc' = "read"
  /\ UNCHANGED <<error, optVars, meshVars, cfgVars, regVars, bindVars, bufVars,
                 su2_dt, su2_state, deltaT, TimeIter, nTimeIter, time,
                 precice_deltaT, stopCalc, applied, written,
                 nIteration, nAdvance, nCommitted, nRollback, nPostprocessing, nFinalize>>
  /\ UNCHANGED parVars


\* line 294: the secondary displacement is read on the secondary mesh
ReadDisplacements2_mesh1 == read_block_vector_data(read_data_id, vertex_ids)
ReadDisplacements2 == read_block_vector_data(read_data_id2, vertex_ids2)

\* lines 291-317
ReadApply ==
  /\ pc = "read"
  /\ \E available \in BOOLEAN :
       /\ answers' = Append(answers, Answer("is_read_data_available", available))
       /\ IF ~available
          THEN pc' = "barrier1" /\ UNCHANGED <<error, calls, applied>>
          ELSE LET displacements  == read_block_vector_data(read_data_id, vertex_ids)
                   displacements2 == ReadDisplacements2
                   read_data      == read_block_scalar_data(read_data_id_CHT, vertex_ids)
                   a1 == ApplyDispl(MovingMarkerID, iVertices_MovingMarker_PHYS,
                                    displacements)
                   a2 == ApplyDispl(MovingMarkerID2, iVertices_MovingMarker_PHYS2,
                                    displacements2)
                   a3 == ApplyTemp(CHTMarkerID, iVertices_CHTMarker_PHYS, read_data)
                   reads == <<Call("read_block_vector_data", read_data_id),
                              Call("read_block_vector_data", read_data_id2),
                              Call("read_block_scalar_data", read_data_id_CHT)>>
               IN  IF Len(iVertices_MovingMarker_PHYS) > Len(displacements)
                   THEN /\ Crash("IndexError")
                        /\ applied' = a1
                        /\ calls' = calls \o reads
                   ELSE IF Len(iVertices_MovingMarker_PHYS2) > Len(displacements2)
                   THEN /\ Crash("IndexError")
                        /\ applied' = a1 \o a2
                        /\ calls' = calls \o reads
                   ELSE IF Len(iVertices_CHTMarker_PHYS) > Len(read_data)
                   THEN /\ Crash("IndexError")
                        /\ applied' = a1 \o a2 \o a3
                        /\ calls' = calls \o reads
                   ELSE /\ pc' = "barrier1" /\ error' = error
                        /\ applied' = a1 \o a2 \o a3
                        /\ calls' = calls \o reads
                                    \o <<Call("BoundaryConditionsUpdate", 0)>>
  /\ UNCHANGED <<optVars, meshVars, cfgVars, regVars, bindVars, bufVars, su2Vars,
                 timeVars, written, cntVars>>
  /\ UNCHANGED parVars


\* lines 319-337: after the barrier comes the solver step
AfterBarrier1_skipSolve == "write"
AfterBarrier1 == "solve"

\* lines 319-320
Barrier1 ==
  /\ pc = "barrier1"
  /\ calls' = IF with_MPI THEN Append(calls, Call("Barrier", 1)) ELSE calls
  /\ pc' = AfterBarrier1
  /\ UNCHANGED <<error, optVars, meshVars, cfgVars, regVars, bindVars, bufVars,
                 su2Vars, timeVars, answers, applied, written, cntVars>>
  /\ UNCHANGED parVars


\* lines 323-340: reconcile the step, then one solver step
Solve ==
  /\ pc = "solve"
  /\ LET d   == su2_dt
         eff == EffectiveStep(precice_deltaT, d)
     IN  /\ deltaT' = eff
         /\ su2_dt' = eff
         /\ su2_state' = su2_state + 1
         /\ \E stop \in BOOLEAN : stopCalc' = stop
         /\ calls' = calls \o <<Call("GetUnsteady_TimeStep", d),
                                Call("SetUnsteady_TimeStep", eff),
                                Call("Preprocess", TimeIter),
                                Call("Run", 0),
                                Call("Postprocess", 0),
                                Call("Update", 0),
                                Call("Monitor", TimeIter)>>
  /\ pc' = "write"
  /\ UNCHANGED <<error, optVars, meshVars, cfgVars, regVars, bindVars, bufVars,
                 su2_old, TimeIter, nTimeIter, time, precice_deltaT,
                 precice_saved_time, precice_saved_iter, answers, applied, written, cntVars>>
  /\ UNCHANGED parVars


\* line 343: the writes depend on the middleware's answer alone
WriteNow_unlessStopped(required) == required /\ ~stopCalc
WriteNow(required) == required

\* lines 343-358
WriteExchange ==
  /\ pc = "write"
  /\ \E required \in BOOLEAN :
       LET asked == Append(calls, Call("is_write_data_required", deltaT)) IN
       /\ answers' = Append(answers, Answer("is_write_data_required", required))
       /\ IF ~WriteNow(required)
          THEN /\ calls' = asked
               /\ pc' = "advance"
               /\ UNCHANGED <<error, bufVars, written>>
          ELSE LET p == Gather(pressure, MovingMarkerID, iVertices_MovingMarker_PHYS,
                               "GetVertexPressure")
                   w == Gather(write_data, CHTMarkerID, iVertices_CHTMarker_PHYS,
                               "GetVertexNormalHeatFlux")
               IN  /\ pressure' = p
                   /\ write_data' = w
                   /\ \E out \in BulkWrites(p, w) :
                        /\ written' = written \o out.written
                        /\ calls' = asked \o
                             [i \in 1..Len(out.written) |->
                                Call("write_block_scalar_data", out.written[i].data)]
                        /\ IF out.raised
                           THEN Crash("AssertionError")
                           ELSE pc' = "advance" /\ error' = error
  /\ UNCHANGED <<optVars, meshVars, cfgVars, regVars, bindVars, su2Vars, timeVars,
                 applied, cntVars>>
  /\ UNCHANGED parVars


\* line 361
Advance ==
  /\ pc = "advance"
  /\ \E s \in 1..MaxDt : precice_deltaT' = s
  /\ nAdvance' = nAdvance + 1
  /\ calls' = Append(calls, Call("advance", deltaT))
  /\ pc' = "commit"
  /\ UNCHANGED <<error, optVars, meshVars, cfgVars, regVars, bindVars, bufVars,
                 su2Vars, deltaT, TimeIter, nTimeIter, time,
                 precice_saved_time, precice_saved_iter, stopCalc, answers, applied, written,
                 ckpt, nIteration, nCommitted, nRollback, nPostprocessing, nFinalize>>
  /\ UNCHANGED parVars


\* lines 368-369: what restore() puts back
RestoredTime == precice_saved_time
RestoredIter_incremented == precice_saved_iter + 1
RestoredIter == precice_saved_iter

\* lines 373-374: the early stop leaves the loop and falls to line 382
BreakTarget_return == "done"
BreakTarget == "postprocessing"

\* lines 376-377
NextIter_unchanged == TimeIter
NextIter == TimeIter + 1
NextTime_constraint == time + precice_deltaT
NextTime == time + deltaT

\* lines 365-370: a rollback never looks at the stop signal, it falls to 379
AfterRollback_stop == IF stopCalc THEN "postprocessing" ELSE "barrier2"
AfterRollback == "barrier2"

\* lines 365-377.  ReloadOldState puts back the state SaveOldState kept;
\* with nothing kept the solver's state is whatever its old-state slot holds.
CommitOrRollback ==
  /\ pc = "commit"
  /\ \E rollback \in BOOLEAN :
       /\ answers' = Append(answers, Answer("read_iteration_checkpoint", rollback))
       /\ IF rollback
          THEN /\ su2_state' \in (IF su2_old # None THEN {su2_old} ELSE 0..su2_state)
               /\ time' = RestoredTime
               /\ TimeIter' = RestoredIter
               /\ calls' = calls \o <<Call("ReloadOldState", 0),
                                      Call("mark_action_fulfilled", 2)>>
               /\ nRollback' = nRollback + 1
               /\ pc' = AfterRollback
               /\ UNCHANGED <<ckpt, nCommitted>>
          ELSE /\ calls' = Append(calls, Call("Output", TimeIter))
               /\ nCommitted' = nCommitted + 1
               /\ ckpt' = [ckpt EXCEPT !.fresh = FALSE]
               /\ IF stopCalc
                  THEN pc' = BreakTarget /\ UNCHANGED <<TimeIter, time>>
                  ELSE /\ TimeIter' = NextIter
                       /\ time' = NextTime
                       /\ pc' = "barrier2"
               /\ UNCHANGED <<su2_state, nRollback>>
  /\ UNCHANGED <<error, optVars, meshVars, cfgVars, regVars, bindVars, bufVars,
                 su2_dt, su2_old, deltaT, nTimeIter, precice_deltaT,
                 precice_saved_time, precice_saved_iter, stopCalc, applied, written,
                 nIteration, nAdvance, nPostprocessing, nFinalize>>
  /\ UNCHANGED parVars


\* lines 379-380
Barrier2 ==
  /\ pc = "barrier2"
  /\ calls' = IF with_MPI THEN Append(calls, Call("Barrier", 2)) ELSE calls
  /\ pc' = "while"
  /\ UNCHANGED <<error, optVars, meshVars, cfgVars, regVars, bindVars, bufVars,
                 su2Vars, timeVars, answers, applied, written, cntVars>>
  /\ UNCHANGED parVars


\* -------------------------------------------------- termination, lines 382-384
Postprocessing ==
  /\ pc = "postprocessing"
  /\ nPostprocessing' = nPostprocessing + 1
  /\ calls' = Append(calls, Call("Postprocessing", 0))
  /\ pc' = "finalize"
  /\ UNCHANGED <<error, optVars, meshVars, cfgVars, regVars, bindVars, bufVars,
                 su2Vars, timeVars, answers, applied, written,
                 ckpt, nIteration, nAdvance, nCommitted, nRollback, nFinalize>>
  /\ UNCHANGED parVars


Finalize ==
  /\ pc = "finalize"
  /\ nFinalize' = nFinalize + 1
  /\ calls' = Append(calls, Call("finalize", 0))
  /\ pc' = "done"
  /\ UNCHANGED <<error, optVars, meshVars, cfgVars, regVars, bindVars, bufVars,
                 su2Vars, timeVars, answers, applied, written,
                 ckpt, nIteration, nAdvance, nCommitted, nRollback, nPostprocessing>>
  /\ UNCHANGED parVars


Next ==
  \/ ConstructSolver
  \/ ConfigurePrecice
  \/ CheckDimensions
  \/ SetupMarkers
  \/ GetMeshIDs
  \/ BindMeshes
  \/ Initialize
  \/ InitialData
  \/ BeginBarrier
  \/ LoopCond
  \/ Checkpoint
  \/ ReadApply
  \/ Barrier1
  \/ Solve
  \/ WriteExchange
  \/ Advance
  \/ CommitOrRollback
  \/ Barrier2
  \/ Postprocessing
  \/ Finalize

Spec == Init /\ [][Next]_vars

SpecMesh == InitMesh /\ [][Next]_vars

\* ----------------------------------------- the ranks of a parallel run
\* Every rank runs main() on its own partition of the mesh.  The view below
\* follows each rank from line 273 on, through the positions where it can
\* wait for, or run ahead of, the others.  The roles of the markers come
\* from the solver's configuration and are the same on every rank; the
\* vertices a rank owns are its own (the ranks being alike, they are taken
\* in the order of the vertices they own).  The answers of the middleware and the
\* stop signal of the solver are collective: every rank gets the same ones.

\* len(iVertices_MovingMarker_PHYS) on rank r, lines 122-137
RankMoving(r) == IF MovingMarker \in MovingMarkerList THEN rank_nPhys[r] ELSE 0
\* len(vertex_ids) on rank r, registered from the CHT marker, lines 173-218
RankVertexIds(r) == IF CHTMarker \in CHTMarkerList THEN rank_nPhys[r] ELSE 0

\* What the ranks are told in one iteration: the loop condition, then, if
\* the session is ongoing, read available, stop, rollback.  (Whether writing
\* is required changes no rank's path but by the exception below, so it is
\* left to the rank that raises.)
Over == [ongoing |-> FALSE, available |-> FALSE, stop |-> FALSE,
         rollback |-> FALSE]
SignalChoices(n) ==
  {Over} \cup
  (IF n > sessionLen THEN {}
   ELSE [ongoing : {TRUE}, available : BOOLEAN, stop : BOOLEAN,
         rollback : BOOLEAN])

InitPar ==
  /\ InitWith(SmallMeshes, MaxAdvance, {MaxDt}, {0}, {3})
  /\ with_MPI
  /\ rank_pc = [r \in Ranks |-> "begin"]
  /\ rank_iter = [r \in Ranks |-> 0]
  /\ rank_barriers = [r \in Ranks |-> 0]
  /\ rank_nPhys \in [Ranks -> {0, 1}]
  /\ \A r \in Ranks \ {1} : rank_nPhys[r] <= rank_nPhys[r - 1]
  /\ signals = <<>>

Goto(r, where) == rank_pc' = [rank_pc EXCEPT ![r] = where]

\* lines 276-277, 319-320, 379-380: comm.Barrier() returns on a rank once
\* every rank of the communicator has entered its call of the same number.
BarrierOpen_alone(r) == TRUE
BarrierOpen(r) == \A q \in Ranks : rank_barriers[q] >= rank_barriers[r]

\* if options.with_MPI == True: comm.Barrier()
EnterBarrier(r, inside, after) ==
  IF with_MPI
  THEN /\ Goto(r, inside)
       /\ rank_barriers' = [rank_barriers EXCEPT ![r] = @ + 1]
  ELSE /\ Goto(r, after)
       /\ UNCHANGED rank_barriers

\* lines 273-277
RankBegin(r) ==
  /\ rank_pc[r] = "begin"
  /\ EnterBarrier(r, "barrier0", "while")
  /\ UNCHANGED <<rank_iter, rank_nPhys, signals, seqVars>>

\* the return of comm.Barrier() at lines 277, 320 and 380
RankBarrier(r) ==
  /\ rank_pc[r] \in {"barrier0", "barrier1", "barrier2"}
  /\ BarrierOpen(r)
  /\ Goto(r, IF rank_pc[r] = "barrier1" THEN AfterBarrier1 ELSE "while")
  /\ UNCHANGED <<rank_iter, rank_barriers, rank_nPhys, signals, seqVars>>

\* line 281; the first rank to ask learns what all ranks will be told
RankLoopCond(r) ==
  /\ rank_pc[r] = "while"
  /\ LET n == rank_iter[r] + 1 IN
     /\ IF n <= Len(signals)
        THEN UNCHANGED signals
        ELSE \E s \in SignalChoices(n) : signals' = Append(signals, s)
     /\ IF LoopContinues(signals'[n].ongoing)
        THEN /\ Goto(r, "read")
             /\ rank_iter' = [rank_iter EXCEPT ![r] = n]
        ELSE /\ Goto(r, "postprocessing")
             /\ UNCHANGED rank_iter
  /\ UNCHANGED <<rank_barriers, rank_nPhys, seqVars>>

\* lines 283-320: checkpoint, read and apply, then the barrier; a moving
\* marker with more physical vertices than vertex IDs raises IndexError
RankReadApply(r) ==
  /\ rank_pc[r] = "read"
  /\ IF signals[rank_iter[r]].available /\ RankMoving(r) > RankVertexIds(r)
     THEN Goto(r, "crashed_read") /\ UNCHANGED rank_barriers
     ELSE EnterBarrier(r, "barrier1", AfterBarrier1)
  /\ UNCHANGED <<rank_iter, rank_nPhys, signals, seqVars>>

\* lines 322-340
RankSolve(r) ==
  /\ rank_pc[r] = "solve"
  /\ Goto(r, "write")
  /\ UNCHANGED <<rank_iter, rank_barriers, rank_nPhys, signals, seqVars>>

\* lines 343-361: the writes, which (when required) may raise on a pressure
\* buffer of another size than the vertex IDs, and advance
RankWriteAdvance(r) ==
  /\ rank_pc[r] = "write"
  /\ \/ Goto(r, "commit")
     \/ /\ RankMoving(r) # RankVertexIds(r)
        /\ Goto(r, "crashed_write")
  /\ UNCHANGED <<rank_iter, rank_barriers, rank_nPhys, signals, seqVars>>

\* lines 365-380
RankCommitOrRollback(r) ==
  /\ rank_pc[r] = "commit"
  /\ LET s == signals[rank_iter[r]]
         target == IF s.rollback THEN AfterRollback
                   ELSE IF s.stop THEN BreakTarget ELSE "barrier2"
     IN  IF target = "barrier2"
         THEN EnterBarrier(r, "barrier2", "while")
         ELSE Goto(r, target) /\ UNCHANGED rank_barriers
  /\ UNCHANGED <<rank_iter, rank_nPhys, signals, seqVars>>

\* lines 382-384
RankFinish(r) ==
  /\ rank_pc[r] = "postprocessing"
  /\ Goto(r, "done")
  /\ UNCHANGED <<rank_iter, rank_barriers, rank_nPhys, signals, seqVars>>

RankStep(r) ==
  \/ RankBegin(r)
  \/ RankBarrier(r)
  \/ RankLoopCond(r)
  \/ RankReadApply(r)
  \/ RankSolve(r)
  \/ RankWriteAdvance(r)
  \/ RankCommitOrRollback(r)
  \/ RankFinish(r)

NextPar == \E r \in Ranks : RankStep(r)

SpecPar == InitPar /\ [][NextPar]_vars

\* Every rank is a process of its own that keeps running.
SpecParFair == SpecPar /\ \A r \in Ranks : WF_vars(RankStep(r))

\* ===================================================================== claims
LoopPcs == {"checkpoint", "read", "barrier1", "solve", "write", "advance",
            "commit", "barrier2"}
ExitPcs == {"postprocessing", "finalize", "done"}

Has(op) == op \in Ops(calls)
Arg(op) == calls[IndexOf(calls, op)].arg
LastCall == calls[Len(calls)]

SolverStepOps == {"Preprocess", "Run", "Postprocess", "Update", "Monitor"}
ExchangeOps == {"read_block_vector_data", "read_block_scalar_data",
                "write_block_scalar_data"}

\* The loop was left by the solver's stop signal (no "session over" answer).
StoppedEarly ==
  /\ pc \in ExitPcs
  /\ \A i \in 1..Len(calls) : calls[i] # Call("is_coupling_ongoing", 0)

\* The step of an iteration a call belongs to.
Phase(c) ==
  CASE c.op = "is_coupling_ongoing" -> IF c.arg = 1 THEN 0 ELSE 9
    [] c.op = "SaveOldState" -> 1
    [] c.op = "mark_action_fulfilled" -> IF c.arg = 1 THEN 1 ELSE 7
    [] c.op \in {"read_block_vector_data", "read_block_scalar_data",
                 "BoundaryConditionsUpdate"} -> 2
    [] c.op = "Barrier" -> IF c.arg = 1 THEN 3 ELSE 8
    [] c.op \in {"GetUnsteady_TimeStep", "SetUnsteady_TimeStep"} -> 4
    [] c.op \in SolverStepOps -> 4
    [] c.op \in {"is_write_data_required", "write_block_scalar_data"} -> 5
    [] c.op = "advance" -> 6
    [] c.op \in {"ReloadOldState", "Output"} -> 7
    [] c.op = "Postprocessing" -> 10
    [] c.op = "finalize" -> 11
    [] OTHER -> 0

\* C1: within an iteration the calls come in the order checkpoint save,
\* read-application, solver step, write-exchange, advance, and an iteration
\* starts only after the advance of the one before it (the number of
\* advances made is the number of iterations started, less one until the
\* running iteration has advanced).
C1_StepOrder ==
  /\ nIteration = 0 => nAdvance = 0
  /\ nIteration >= 1 =>
       /\ \A i \in 1..(Len(calls) - 1) : Phase(calls[i]) <= Phase(calls[i + 1])
       /\ applied # <<>> => Has("read_block_vector_data")
       /\ (Has("is_write_data_required") \/ Has("write_block_scalar_data"))
            => SolverStepOps \subseteq Ops(calls)
       /\ Has("write_block_scalar_data") => Has("is_write_data_required")
       /\ Has("advance") => Has("is_write_data_required")
       /\ (Has("ReloadOldState") \/ Has("Output")) => Has("advance")
       /\ nAdvance = IF Has("advance") THEN nIteration ELSE nIteration - 1

C1_Witness ==
  /\ pc = "commit" /\ nIteration = 2
  /\ Has("SaveOldState") /\ Has("BoundaryConditionsUpdate")
  /\ Has("write_block_scalar_data")

\* C2: after a rollback time, iteration and solver state are those of the
\* most recent checkpoint save, the iteration counter is not above the index
\* the rolled-back attempt ran with, and no output was triggered; a save and
\* a restore in the same iteration leave the iteration index unchanged.
C2_RollbackRestores ==
  Has("ReloadOldState") =>
    /\ ckpt.valid => /\ time = ckpt.time
                     /\ TimeIter = ckpt.iter
                     /\ su2_state = ckpt.state
    /\ TimeIter <= Arg("Preprocess")
    /\ Has("SaveOldState") => TimeIter = Arg("Preprocess")
    /\ ~Has("Output")

C2_Witness ==
  /\ pc = "barrier2" /\ Has("ReloadOldState") /\ Has("SaveOldState")
  /\ ckpt.valid /\ ckpt.iter > su2_TimeIter /\ ckpt.time > 0
  /\ su2_state = ckpt.state

\* C3: every restore is preceded by a checkpoint save of the same coupling
\* window: a save was made and no window committed since.
C3_RestoreHasFreshSave ==
  Has("ReloadOldState") => ckpt.valid /\ ckpt.fresh

\* C4 as stated: with no rollback, at loop exit the iteration counter is its
\* initial value plus the number of committed windows.
C4_Original ==
  (pc \in ExitPcs /\ nRollback = 0) => TimeIter = su2_TimeIter + nCommitted

\* C4 as amended: with no rollback, the iteration counter is its initial
\* value plus the number of committed windows, less one when the loop was
\* left by the solver's stop signal (that window commits without increment).
C4_IterationCount ==
  (pc \in LoopPcs \cup ExitPcs \cup {"while"} /\ nRollback = 0) =>
     TimeIter = su2_TimeIter + nCommitted - Bit(StoppedEarly)

C4_Witness ==
  /\ pc = "done" /\ nRollback = 0 /\ nCommitted = 2 /\ StoppedEarly
  /\ TimeIter = su2_TimeIter + 1

\* C5: whichever way the loop ends, Postprocessing is called once, then
\* finalize once, and nothing is called after them; neither is called
\* before the loop has ended.
C5_TerminationOnce ==
  /\ pc \notin {"finalize", "done"} => nPostprocessing = 0 /\ nFinalize = 0
  /\ pc = "finalize" => /\ nPostprocessing = 1 /\ nFinalize = 0
                        /\ LastCall.op = "Postprocessing"
  /\ pc = "done" => /\ nPostprocessing = 1 /\ nFinalize = 1
                    /\ Len(calls) >= 2
                    /\ LastCall.op = "finalize"
                    /\ calls[Len(calls) - 1].op = "Postprocessing"
  /\ \A i \in 1..Len(calls) :
       calls[i].op = "Postprocessing" => i >= Len(calls) - 1

C5_Witness ==
  /\ pc = "done" /\ StoppedEarly /\ stopCalc /\ nIteration >= 1
  /\ nPostprocessing = 1 /\ nFinalize = 1

\* C6: the step set in the solver, passed to is-write-required and handed
\* to advance is min(s, d) of the constraint s and the solver's step d ...
C6_StepIsMin ==
  (nIteration >= 1 /\ Has("SetUnsteady_TimeStep")) =>
    LET eff == Arg("SetUnsteady_TimeStep")
        d   == Arg("GetUnsteady_TimeStep")
    IN  /\ deltaT = eff /\ su2_dt = eff
        /\ eff <= d
        /\ ~Has("advance") => /\ eff <= precice_deltaT
                              /\ eff \in {precice_deltaT, d}
        /\ Has("is_write_data_required") => Arg("is_write_data_required") = eff
        /\ Has("advance") => Arg("advance") = eff

\* ... and a commit that continues the loop adds exactly that step to time.
C6_CommitAddsStep ==
  (pc = "commit" /\ pc' = "barrier2" /\ "Output" \in Ops(calls'))
     => time' = time + Arg("advance")

\* C6: in every iteration the effective step is min(s, d) in all four uses.
C6_EffectiveStep == [][C6_StepIsMin' /\ C6_CommitAddsStep]_vars

C6_Witness ==
  /\ pc = "barrier2" /\ Has("Output") /\ Has("write_block_scalar_data")
  /\ Arg("advance") < Arg("GetUnsteady_TimeStep")

\* C7: an iteration runs only after the middleware answered "ongoing", an
\* "ongoing" answer always starts an iteration, a "not ongoing" answer ends
\* the loop, and this does not depend on nTimeIter.
C7_LoopCondition ==
  /\ pc \in LoopPcs =>
       /\ Len(calls) >= 1
       /\ calls[1] = Call("is_coupling_ongoing", 1)
  /\ \A i \in 1..Len(calls) :
       calls[i].op = "is_coupling_ongoing" =>
         IF calls[i].arg = 1
         THEN i = 1 /\ nIteration >= 1
         ELSE /\ pc \in ExitPcs
              /\ \A j \in (i + 1)..Len(calls) :
                   calls[j].op \in {"Postprocessing", "finalize"}

C7_Witness ==
  /\ pc = "checkpoint" /\ TimeIter >= nTimeIter /\ nIteration = 2

\* C8: a failed solver or middleware construction, a dimension mismatch and
\* an unresolvable mesh name end the run at once: no solver step, no mesh
\* registration, no data exchange and no advance has been or will be made.
InitFatal == {"TypeError", "precice", "dimension", "mesh"}

C8_InitFatalAborts ==
  /\ error \in InitFatal => pc = "aborted"
  /\ pc = "aborted" =>
       /\ error \in InitFatal
       /\ nIteration = 0 /\ nAdvance = 0 /\ su2_state = 0
       /\ applied = <<>> /\ written = <<>>
       /\ Ops(calls) \cap (SolverStepOps \cup ExchangeOps
                           \cup {"set_mesh_vertices", "initialize", "advance"}) = {}

C8_Witness == pc = "aborted" /\ error = "mesh" /\ with_MPI

\* C9: whatever the roles and presence of the markers, every bulk write
\* passes as many values as vertex IDs and no per-vertex application or
\* write fails.
C9_DegradedMarkersAreSafe ==
  /\ \A i \in 1..Len(written) : Len(written[i].values) = Len(written[i].ids)
  /\ error \notin {"IndexError", "AssertionError"}

\* One registry: the marker, its ID, its physical-vertex sequence and count.
RegistryOK(name, roleList, id, list, n) ==
  /\ name \notin DOMAIN allMarkerIDs => id = None /\ list = <<>>
  /\ name \notin roleList => id = None /\ list = <<>>
  /\ id = None => list = <<>> /\ n = 0
  /\ id # None =>
       /\ {list[i] : i \in 1..Len(list)} =
            {v \in 0..(nVertices[id] - 1) : v \notin haloNodes[id]}
       /\ \A i, j \in 1..Len(list) : i < j => list[i] < list[j]
       /\ n = nVertices[id] - Cardinality(haloNodes[id])
  /\ Len(list) = n

\* C10: each registry holds exactly the non-halo vertices, once each, in
\* increasing index order; its length is the count that sizes the buffers;
\* it is empty for a marker absent on the rank.
C10_RegistryIsPhysical ==
  /\ pc \notin {"construct", "precice", "dimensions", "markers"} =>
       /\ RegistryOK(MovingMarker, MovingMarkerList, MovingMarkerID,
                     iVertices_MovingMarker_PHYS, nVertex_MovingMarker_PHYS)
       /\ RegistryOK(MovingMarker2, MovingMarkerList, MovingMarkerID2,
                     iVertices_MovingMarker_PHYS2, nVertex_MovingMarker_PHYS2)
       /\ RegistryOK(CHTMarker, CHTMarkerList, CHTMarkerID,
                     iVertices_CHTMarker_PHYS, nVertex_CHTMarker_PHYS)
  /\ pc \in LoopPcs =>
       /\ Len(coords) = Len(iVertices_CHTMarker_PHYS)
       /\ Len(coords2) = Len(iVertices_MovingMarker_PHYS2)
       /\ Len(pressure) = Len(iVertices_MovingMarker_PHYS)
       /\ Len(write_data) = Len(iVertices_CHTMarker_PHYS)

C10_Witness ==
  /\ pc = "read"
  /\ MovingMarkerID # None /\ nVertices[MovingMarkerID] = 2
  /\ haloNodes[MovingMarkerID] = {0}
  /\ iVertices_MovingMarker_PHYS = <<1>>

\* ------------------------------------------------ answers of the middleware
Asked(query) == query \in Ops(answers)
AnswerTo(query) == answers[IndexOf(answers, query)].arg
CountOp(log, op) == Cardinality({i \in 1..Len(log) : log[i].op = op})
IsBulkWrite(c) == c.op = "write_block_scalar_data"

\* C11: in an iteration where the middleware answered that writing is
\* required, pressure and heat flux are gathered from the solver and both
\* bulk writes, pressure first, are made before advance, whatever the stop
\* signal of the solver step was; where it answered that writing is not
\* required, no write call is made in that iteration.
C11_WriteIffRequired ==
  Asked("is_write_data_required") =>
    /\ AnswerTo("is_write_data_required") = 0 =>
         /\ SelectSeq(calls, IsBulkWrite) = <<>>
         /\ written = <<>>
    /\ (AnswerTo("is_write_data_required") = 1 /\ Has("advance")) =>
         /\ SelectSeq(calls, IsBulkWrite) =
              <<Call("write_block_scalar_data", write_data_id),
                Call("write_block_scalar_data", write_data_id_CHT)>>
         /\ \A i \in 1..Len(calls) :
              IsBulkWrite(calls[i]) => i < IndexOf(calls, "advance")
         /\ written = <<WriteRec(write_data_id, vertex_ids, pressure),
                        WriteRec(write_data_id_CHT, vertex_ids, write_data)>>
         /\ \A i \in 1..Len(iVertices_MovingMarker_PHYS) :
              pressure[i] = GetVertexPressure(MovingMarkerID,
                                              iVertices_MovingMarker_PHYS[i])
         /\ \A i \in 1..Len(iVertices_CHTMarker_PHYS) :
              write_data[i] = GetVertexNormalHeatFlux(CHTMarkerID,
                                                      iVertices_CHTMarker_PHYS[i])

C11_Witness ==
  /\ pc = "commit" /\ stopCalc
  /\ Asked("is_write_data_required") /\ AnswerTo("is_write_data_required") = 1
  /\ Len(written) = 2 /\ Len(written[1].values) = 1 /\ Len(written[2].values) = 1

\* C12: in two dimensions every displacement applied, to the primary and to
\* the secondary moving marker, has third component zero whatever was read;
\* in three dimensions the third component applied is the third component
\* read for that vertex.
C12_ThirdComponent ==
  \A i \in 1..Len(applied) :
    applied[i].fn = "SetMeshDisplacement" =>
      LET a    == applied[i]
          prim == a.marker = MovingMarkerID
          list == IF prim THEN iVertices_MovingMarker_PHYS
                          ELSE iVertices_MovingMarker_PHYS2
          buf  == IF prim THEN read_block_vector_data(read_data_id, vertex_ids)
                          ELSE read_block_vector_data(read_data_id2, vertex_ids2)
          k    == CHOOSE j \in 1..Len(list) : list[j] = a.vertex
      IN  /\ a.marker \in {MovingMarkerID, MovingMarkerID2}
          /\ a.val[1] = buf[k][1] /\ a.val[2] = buf[k][2]
          /\ IF nDim = 2 THEN a.val[3] = 0 /\ buf[k][2] # 0
                         ELSE a.val[3] = buf[k][3]

C12_Witness ==
  /\ nDim = 2 /\ pc = "barrier1"
  /\ \E i, j \in 1..Len(applied) :
       /\ applied[i].fn = "SetMeshDisplacement" /\ applied[i].marker = MovingMarkerID
       /\ applied[j].fn = "SetMeshDisplacement" /\ applied[j].marker = MovingMarkerID2
       /\ applied[i].val[3] = 0 /\ applied[j].val[3] = 0

\* C13: a window that is not rolled back triggers Output exactly once, with
\* the iteration index the solver step of that iteration ran with; then with
\* the stop signal set the loop is left with iteration and time unchanged,
\* otherwise the iteration grows by one and time by the step handed to
\* advance.  A window that is rolled back triggers no output.
C13_CommitStep ==
  pc = "commit" =>
    IF answers'[Len(answers')] = Answer("read_iteration_checkpoint", TRUE)
    THEN /\ CountOp(calls', "Output") = 0
         /\ nCommitted' = nCommitted
    ELSE /\ CountOp(calls', "Output") = 1
         /\ calls'[Len(calls')] = Call("Output", Arg("Preprocess"))
         /\ nCommitted' = nCommitted + 1
         /\ IF stopCalc
            THEN /\ pc' \in ExitPcs
                 /\ TimeIter' = TimeIter /\ time' = time
            ELSE /\ pc' \in LoopPcs
                 /\ TimeIter' = TimeIter + 1
                 /\ time' = time + Arg("advance")

C13_CommittedWindow == [][C13_CommitStep]_vars

C13_Witness ==
  /\ pc = "barrier2" /\ Has("Output") /\ ~stopCalc
  /\ TimeIter = Arg("Output") + 1
  /\ Arg("advance") # precice_deltaT
  /\ nCommitted = 2

CountCall(log, c) == Cardinality({i \in 1..Len(log) : log[i] = c})
IndexOfCall(log, c) == CHOOSE i \in 1..Len(log) : log[i] = c

\* The set-up is past the initial-data step and no iteration has started.
SetUpDone == nIteration = 0 /\ pc \in {"begin", "while"} \cup ExitPcs

\* C14 (set-up): initialize_data is called exactly once before the first
\* iteration and after initialize; the two initial writes and their
\* acknowledgement are made, once, between the two, exactly when the
\* middleware required the initial data.
C14_InitialData ==
  /\ SetUpDone =>
       /\ CountOp(calls, "initialize") = 1
       /\ CountOp(calls, "initialize_data") = 1
       /\ IndexOf(calls, "initialize") < IndexOf(calls, "initialize_data")
       /\ CountOp(calls, "write_block_scalar_data")
            = 2 * AnswerTo("write_initial_data")
       /\ CountCall(calls, Call("mark_action_fulfilled", 0))
            = AnswerTo("write_initial_data")
       /\ AnswerTo("write_initial_data") = 1 =>
            LET ack == IndexOfCall(calls, Call("mark_action_fulfilled", 0)) IN
            /\ ack < IndexOf(calls, "initialize_data")
            /\ \A i \in 1..Len(calls) :
                 IsBulkWrite(calls[i]) =>
                   IndexOf(calls, "initialize") < i /\ i < ack
  /\ nIteration > 0 =>
       /\ ~Has("initialize_data") /\ ~Has("initialize")
       /\ CountCall(calls, Call("mark_action_fulfilled", 0)) = 0

\* C14 (loop): the solver state is saved, at the top of the iteration, in
\* exactly the iterations where the middleware required a checkpoint write,
\* and restored, right after advance, after exactly the advances where it
\* required a checkpoint read; each acknowledgement directly follows its
\* work and lies before the next advance.
C14_Checkpoints ==
  nIteration > 0 =>
    /\ CountOp(calls, "advance") <= 1
    /\ IF Asked("write_iteration_checkpoint")
       THEN /\ CountOp(calls, "SaveOldState")
                 = AnswerTo("write_iteration_checkpoint")
            /\ CountCall(calls, Call("mark_action_fulfilled", 1))
                 = AnswerTo("write_iteration_checkpoint")
            /\ AnswerTo("write_iteration_checkpoint") = 1 =>
                 /\ calls[2] = Call("SaveOldState", 0)
                 /\ calls[3] = Call("mark_action_fulfilled", 1)
                 /\ Has("advance") => 3 < IndexOf(calls, "advance")
       ELSE ~Has("SaveOldState")
    /\ IF Asked("read_iteration_checkpoint")
       THEN /\ CountOp(calls, "ReloadOldState")
                 = AnswerTo("read_iteration_checkpoint")
            /\ CountCall(calls, Call("mark_action_fulfilled", 2))
                 = AnswerTo("read_iteration_checkpoint")
            /\ AnswerTo("read_iteration_checkpoint") = 1 =>
                 LET adv == IndexOf(calls, "advance") IN
                 /\ calls[adv + 1] = Call("ReloadOldState", 0)
                 /\ calls[adv + 2] = Call("mark_action_fulfilled", 2)
       ELSE /\ ~Has("ReloadOldState")
            /\ CountCall(calls, Call("mark_action_fulfilled", 2)) = 0

\* C14: every middleware action is performed and acknowledged exactly when
\* the middleware reports it required, the acknowledgement after the work
\* and before the next advance.
C14_ActionsIffRequired == C14_InitialData /\ C14_Checkpoints

C14_Witness ==
  /\ pc = "barrier2" /\ nIteration = 2
  /\ AnswerTo("write_iteration_checkpoint") = 1
  /\ AnswerTo("read_iteration_checkpoint") = 1
  /\ Has("SaveOldState") /\ Has("ReloadOldState")

\* The data set and the vertex ID a value returned by the middleware was
\* read for (see read_block_vector_data and read_block_scalar_data).
DataOf(v) == v \div 100
VertexIdOf(v) == (v % 100) \div 10

\* C16: a value read on one mesh is applied only to that mesh's own marker
\* (primary displacement to the primary moving marker, secondary
\* displacement to the secondary moving marker, temperature to the thermal
\* marker), and the value applied to a vertex was read for the vertex ID
\* that was registered, at the same position, from the coordinates of that
\* very vertex of that marker.
C16_OwnMeshOwnVertex ==
  \A i \in 1..Len(applied) :
    LET a    == applied[i]
        disp == a.fn = "SetMeshDisplacement"
        sec  == disp /\ a.marker = MovingMarkerID2
        data == DataOf(a.val[1])
        vid  == VertexIdOf(a.val[1])
        ids  == IF sec THEN vertex_ids2 ELSE vertex_ids
        rows == IF sec THEN coords2 ELSE coords
        list == IF sec THEN iVertices_MovingMarker_PHYS2
                ELSE IF disp THEN iVertices_MovingMarker_PHYS
                ELSE iVertices_CHTMarker_PHYS
    IN  /\ a.marker # None
        /\ IF sec THEN data = read_data_id2
           ELSE IF disp THEN data = read_data_id /\ a.marker = MovingMarkerID
           ELSE data = read_data_id_CHT /\ a.marker = CHTMarkerID
        /\ \E k \in 1..Len(list) :
             /\ list[k] = a.vertex
             /\ k <= Len(ids) /\ ids[k] = vid
             /\ \A d \in 1..nDim :
                  rows[k][d] = GetInitialMeshCoord(a.marker, a.vertex)[d]

C16_Witness ==
  /\ pc = "barrier1" /\ Len(applied) = 3
  /\ applied[1].fn = "SetMeshDisplacement" /\ applied[1].marker = MovingMarkerID
  /\ applied[2].fn = "SetMeshDisplacement" /\ applied[2].marker = MovingMarkerID2
  /\ applied[3].fn = "SetVertexTemperature" /\ applied[3].marker = CHTMarkerID
  /\ DataOf(applied[1].val[1]) = read_data_id
  /\ DataOf(applied[2].val[1]) = read_data_id2
  /\ DataOf(applied[3].val[1]) = read_data_id_CHT

\* C17 (states): the loop is left on the stop signal only in an iteration
\* whose window committed: it triggered Output and restored nothing.
C17_StopOnlyOnCommit ==
  StoppedEarly => stopCalc /\ Has("Output") /\ ~Has("ReloadOldState")

\* C17 (steps): with the stop signal set and a rollback requested the
\* rollback is made (time, iteration and a saved solver state are put back)
\* and the loop goes on to its condition; from there nothing but the
\* session being over ends it, iteration and time stay as restored up to
\* the solver step, and that step runs the restored iteration again.
C17_RollbackStep ==
  /\ (pc = "commit" /\ stopCalc
        /\ answers'[Len(answers')] = Answer("read_iteration_checkpoint", TRUE)) =>
       /\ pc' = "barrier2"
       /\ time' = precice_saved_time /\ TimeIter' = precice_saved_iter
       /\ su2_old # None => su2_state' = su2_old
       /\ calls' = calls \o <<Call("ReloadOldState", 0),
                              Call("mark_action_fulfilled", 2)>>
  /\ (pc = "while" /\ stopCalc /\ Has("ReloadOldState")) =>
       IF calls'[Len(calls')] = Call("is_coupling_ongoing", 1)
       THEN pc' = "checkpoint"
       ELSE pc' \in ExitPcs /\ ~StoppedEarly'
  /\ pc \in {"barrier2", "while", "checkpoint", "read", "barrier1"} =>
       TimeIter' = TimeIter /\ time' = time
  /\ pc = "solve" =>
       CountCall(calls', Call("Preprocess", TimeIter)) = 1

\* C17: the stop signal ends the loop only on a committed window; when it
\* fires together with a rollback request the rollback is honoured, the
\* loop does not end on that signal and the window is solved again if the
\* session is still ongoing.
C17_StopYieldsToRollback == [][C17_StopOnlyOnCommit' /\ C17_RollbackStep]_vars

C17_Witness ==
  /\ pc = "solve" /\ nIteration = 2 /\ nRollback = 1 /\ nCommitted = 0
  /\ stopCalc /\ ckpt.valid /\ TimeIter = ckpt.iter

\* C18: the time step held by the solver never grows: every solver step
\* runs with a step no larger than the one before, also when the
\* middleware's constraint has grown again, and neither the commit nor the
\* rollback changes it.
C18_Step ==
  /\ su2_dt' <= su2_dt
  /\ pc = "solve" => deltaT' = su2_dt' /\ deltaT' <= precice_deltaT
  /\ pc = "commit" => su2_dt' = su2_dt /\ deltaT' = deltaT
  /\ pc \in LoopPcs => deltaT' <= deltaT

C18_StepNeverGrows == [][C18_Step]_vars

C18_Witness ==
  /\ pc = "write" /\ nIteration = 2
  /\ precice_deltaT > su2_dt /\ deltaT = su2_dt /\ su2_dt < MaxDt

\* C19: a launch without the parallel flag whose solver is constructed
\* finishes the start-up: it does not end with an exception, it holds a
\* valid process count once past the configuration of the middleware, and
\* no operation of the communicator is invoked.
C19_SerialLaunch ==
  ~with_MPI =>
    /\ pc # "crashed"
    /\ pc \notin {"construct", "precice", "aborted"} => size >= 1
    /\ ~Has("Barrier")

\* ------------------------------------------------------ ranks in lockstep
RankExited(r) == rank_pc[r] \in {"postprocessing", "done"}
RankCrashed(r) == rank_pc[r] \in {"crashed_read", "crashed_write"}

\* Rank r left the loop by the break of line 374: nobody asked further.
BrokeOut(r) == RankExited(r) /\ Len(signals) = rank_iter[r]

\* Rank q has finished the read-application of iteration k.
ReadDone(q, k) ==
  \/ rank_iter[q] > k
  \/ rank_iter[q] = k /\ rank_pc[q] \notin {"read", "crashed_read"}

\* Rank r has begun the solver step of iteration k.
SolveBegun(r, k) ==
  \/ rank_iter[r] > k
  \/ rank_iter[r] = k /\ rank_pc[r] \notin {"read", "crashed_read",
                                                "barrier1", "solve"}

\* Rank q has finished advance and commit or rollback of iteration k.
CommitDone(q, k) ==
  \/ rank_iter[q] > k
  \/ rank_iter[q] = k /\ (rank_pc[q] \in {"barrier2", "while"} \/ RankExited(q))

\* Rank r has made the ongoing-query that opens iteration n.
Queried(r, n) ==
  \/ rank_iter[r] >= n
  \/ rank_iter[r] = n - 1 /\ RankExited(r) /\ ~BrokeOut(r)

\* C15: in a parallel run no rank begins the solver step of iteration k
\* before every rank has finished the read-application of iteration k, and
\* no rank makes the ongoing-query of iteration k+1 before every rank has
\* finished advance and commit or rollback of iteration k.
C15_Lockstep ==
  \A r \in Ranks, q \in Ranks, k \in 1..Len(signals) :
    /\ SolveBegun(r, k) => ReadDone(q, k)
    /\ Queried(r, k + 1) => CommitDone(q, k)

C15_Witness ==
  /\ rank_iter = [r \in Ranks |-> 2]
  /\ rank_pc[1] = "barrier2" /\ \A r \in Ranks \ {1} : rank_pc[r] = "write"
  /\ \A r \in Ranks : rank_barriers[r] = IF r = 1 THEN 5 ELSE 4

\* C20 (termination): under fair scheduling of the ranks, with a session
\* that is over after finitely many advances and the same signals on every
\* rank, every rank's process eventually ends, none staying blocked.
RankEnded(r) == rank_pc[r] = "done" \/ RankCrashed(r)
C20_EveryRankTerminates == <>(\A r \in Ranks : RankEnded(r))

\* The same where on every rank the moving marker and the vertex IDs have
\* the same size (no rank raises): every rank reaches finalize.
RegistriesAgree == \A r \in Ranks : RankMoving(r) = RankVertexIds(r)
C20_TerminatesWhenRegistriesAgree ==
  RegistriesAgree => <>(\A r \in Ranks : rank_pc[r] = "done")

\* A rank that took the early-stop exit has entered every barrier any rank
\* has entered: it leaves nobody waiting for it.
C20_EarlyStopBlocksNobody ==
  \A r \in Ranks, q \in Ranks :
    BrokeOut(r) => rank_barriers[q] <= rank_barriers[r]

====
